---- MODULE Spec2Model ----
(***************************************************************************)
(* Selection listeners of phevere: the three start/stop/get_selection      *)
(* implementations of the repository, each with its background mechanism.  *)
(*   "win"  : src/rust-native/src/platform/windows.rs  (WindowsListener)   *)
(*   "mac"  : src/rust-native/src/platform/macos.rs    (MacOSListener)     *)
(*   "nmac" : src/native/native/src/platform/macos.rs  (MacOSListener)     *)
(* One listener instance, its caller, the threads it spawns, the event     *)
(* taps it registers, and the run loop of the thread that created it.      *)
(***************************************************************************)
EXTENDS Naturals, Sequences, FiniteSets, TLC

VARIABLES
    variant,        \* which implementation backs the listener
    selected_text,  \* Arc<Mutex<Option<String>>> contents: <<>> is None
    mutex,          \* holder of the state mutex: "free" or "cb"
    stop_flag,      \* WindowsListener.stop_flag
    event_tap,      \* nmac ListenerState.event_tap: 0 is None, else a tap id
    tap,            \* tap id -> "none" | "enabled" | "disabled"
    cbAlive,        \* tap id -> the callback closure of the tap is still owned
    thr,            \* thread id -> position of the spawned background thread
    nStarts,        \* number of start() calls that registered/spawned so far
    loopRunning,    \* the creating thread's run loop (self.runloop) is running
    axSel,          \* what the accessibility queries currently yield (<<>>: fail)
    queue,          \* tapped input events waiting on self.runloop, by tap id
    cb,             \* the tap callback in progress on self.runloop
    nEvents,        \* number of external input events so far
    crashed,        \* the process has died
    peer,           \* a second listener created on the same thread: "none" | "started"
    call,           \* the last API call, its result, and what held when it returned
    hist            \* history: what has happened to the listener so far

vars == <<variant, peer, selected_text, mutex, stop_flag, event_tap, tap, cbAlive, thr,
          nStarts, loopRunning, axSel, queue, cb, nEvents, crashed, call, hist>>

(* Bounds of the model. *)
MaxStarts == 2
MaxEvents == 2

Variants == {"win", "mac", "nmac"}
None == <<>>
Texts == {<<"a", "a">>, <<"b", "b">>}
Ids == 1..MaxStarts

(* new() with a selection already in the state. *)
NewSelectionStale == <<"a", "a">>

(* The value new() puts into the shared state. *)
NewSelection == None

(* The value new() gives stop_flag. *)
NewStopFlag == FALSE

IdleCb == [pc |-> "idle", text |-> None]

Init ==
    /\ variant \in Variants
    /\ selected_text = NewSelection
    /\ mutex = "free"
    /\ stop_flag = NewStopFlag
    /\ event_tap = 0
    /\ tap = [i \in Ids |-> "none"]
    /\ cbAlive = [i \in Ids |-> FALSE]
    /\ thr = [i \in Ids |-> "none"]
    /\ nStarts = 0
    /\ loopRunning = FALSE
    /\ axSel = None
    /\ queue = <<>>
    /\ cb = IdleCb
    /\ nEvents = 0
    /\ crashed = FALSE
    /\ peer = "none"
    /\ call = [op |-> "none", again |-> FALSE, ret |-> "none", trusted |-> TRUE,
               val |-> None,
               hadWrite |-> FALSE, capSince |-> FALSE, active |-> FALSE]
    /\ hist = [active |-> FALSE, capturedSince |-> FALSE, writes |-> {},
               lastEvent |-> None]

(* A start()/stop() call returns ret; again: the call before it was the same
   operation; trusted: what a start() found AXIsProcessTrusted to be.  The other
   fields describe a get_selection() call only. *)
ReturnedT(op, ret, trusted) ==
    call' = [op |-> op, again |-> (call.op = op), ret |-> ret, trusted |-> trusted,
             val |-> None, hadWrite |-> FALSE, capSince |-> FALSE, active |-> FALSE]

Returned(op, ret) == ReturnedT(op, ret, TRUE)

(* The host has discarded the listener: no call can follow. *)
Dropped == call.op = "drop"

(* History after a start() that returned Ok. *)
HistStartOk ==
    hist' = [hist EXCEPT !.active = TRUE,
                         !.capturedSince = FALSE, !.lastEvent = None]

(* History after a stop(). *)
HistStop ==
    hist' = [hist EXCEPT !.active = FALSE, !.lastEvent = None]

------------------------------------------------------------------------------
(* WindowsListener *)

(* start_impl(): clone the Arcs, thread::spawn, Ok(()).  No check of an earlier
   start, no reset of stop_flag. *)
WindowsStart ==
    /\ ~crashed /\ ~Dropped /\ variant = "win" /\ nStarts < MaxStarts
    /\ nStarts' = nStarts + 1
    /\ thr' = [thr EXCEPT ![nStarts + 1] = "coinit"]
    /\ Returned("start", "Ok")
    /\ HistStartOk
    /\ UNCHANGED <<variant, peer, selected_text, mutex, stop_flag, event_tap, tap, cbAlive,
                   loopRunning, axSel, queue, cb, nEvents, crashed>>

(* stop_impl that flips the flag instead of setting it. *)
WindowsStopToggle ==
    /\ ~crashed /\ ~Dropped /\ variant = "win"
    /\ stop_flag' = ~stop_flag
    /\ Returned("stop", "Ok")
    /\ HistStop
    /\ UNCHANGED <<variant, peer, selected_text, mutex, event_tap, tap, cbAlive, thr,
                   nStarts, loopRunning, axSel, queue, cb, nEvents, crashed>>

(* stop_impl(): *self.stop_flag.lock().unwrap() = true; stop() then returns Ok(()). *)
WindowsStop ==
    /\ ~crashed /\ ~Dropped /\ variant = "win"
    /\ stop_flag' = TRUE
    /\ Returned("stop", "Ok")
    /\ HistStop
    /\ UNCHANGED <<variant, peer, selected_text, mutex, event_tap, tap, cbAlive, thr,
                   nStarts, loopRunning, axSel, queue, cb, nEvents, crashed>>

ThreadFrame ==
    UNCHANGED <<variant, peer, selected_text, mutex, stop_flag, event_tap, tap, cbAlive,
                nStarts, loopRunning, axSel, queue, cb, nEvents, crashed,
                call, hist>>

(* CoInitializeEx(..).ok().unwrap(): a failure panics the thread. *)
WinThreadCoInit(i) ==
    /\ ~crashed /\ thr[i] = "coinit"
    /\ \E ok \in BOOLEAN :
          thr' = [thr EXCEPT ![i] = IF ok THEN "cocreate" ELSE "panicked"]
    /\ ThreadFrame

(* CoCreateInstance(..).unwrap(): a failure panics the thread, which unwinds out of
   the closure with COM initialized and CoUninitialize (line 52) not reached. *)
WinThreadCoCreate(i) ==
    /\ ~crashed /\ thr[i] = "cocreate"
    /\ \E ok \in BOOLEAN :
          thr' = [thr EXCEPT ![i] = IF ok THEN "wait" ELSE "panicked_com"]
    /\ ThreadFrame

(* while !*stop_flag.lock().unwrap() { sleep(1s) }: the loop ends once the flag is set. *)
WinThreadWait(i) ==
    /\ ~crashed /\ thr[i] = "wait"
    /\ stop_flag
    /\ thr' = [thr EXCEPT ![i] = "uninit"]
    /\ ThreadFrame

(* CoUninitialize(); the thread ends. *)
WinThreadUninit(i) ==
    /\ ~crashed /\ thr[i] = "uninit"
    /\ thr' = [thr EXCEPT ![i] = "done"]
    /\ ThreadFrame

------------------------------------------------------------------------------
(* MacOSListener of rust-native *)

ApiFrame ==
    UNCHANGED <<variant, peer, selected_text, mutex, stop_flag, axSel, queue, cb,
                nEvents, crashed>>

(* start() that drops the result of the trust check. *)
MacStartNoTrustCheck ==
    /\ ~crashed /\ ~Dropped /\ variant = "mac"
    /\ \E trusted \in BOOLEAN, created \in BOOLEAN :
          IF created
          THEN /\ nStarts < MaxStarts
               /\ nStarts' = nStarts + 1
               /\ tap' = [tap EXCEPT ![nStarts + 1] = "enabled"]
               /\ cbAlive' = [cbAlive EXCEPT ![nStarts + 1] = FALSE]
               /\ thr' = [thr EXCEPT ![nStarts + 1] = "runloop"]
               /\ ReturnedT("start", "Ok", trusted)
               /\ HistStartOk
          ELSE /\ ReturnedT("start", "Err_MonitoringError", trusted)
               /\ UNCHANGED <<nStarts, tap, cbAlive, thr, hist>>
    /\ UNCHANGED <<event_tap, loopRunning, variant, peer, selected_text, mutex,
                   stop_flag, axSel, queue, cb, nEvents, crashed>>

(* start(): trust check, CGEventTap::new, CFRunLoopAddSource(self.runloop), enable,
   thread::spawn(CFRunLoopRun), Ok(()).  The tap is a local of start(): when start()
   returns, the tap value and the callback box it owns are dropped, while the run
   loop source (and with it the registration) stays on self.runloop.  Every error
   is mapped to MonitoringError by the trait implementation. *)
MacStart ==
    /\ ~crashed /\ ~Dropped /\ variant = "mac"
    /\ \E trusted \in BOOLEAN, created \in BOOLEAN :
          IF trusted /\ created
          THEN /\ nStarts < MaxStarts
               /\ nStarts' = nStarts + 1
               /\ tap' = [tap EXCEPT ![nStarts + 1] = "enabled"]
               /\ cbAlive' = [cbAlive EXCEPT ![nStarts + 1] = FALSE]
               /\ thr' = [thr EXCEPT ![nStarts + 1] = "runloop"]
               /\ Returned("start", "Ok")
               /\ HistStartOk
          ELSE /\ ReturnedT("start", "Err_MonitoringError", trusted)
               /\ UNCHANGED <<nStarts, tap, cbAlive, thr, hist>>
    /\ UNCHANGED <<event_tap, loopRunning>>
    /\ ApiFrame

(* stop() that also resets the shared state. *)
MacStopClears ==
    /\ ~crashed /\ ~Dropped /\ variant = "mac"
    /\ mutex = "free"
    /\ selected_text' = None
    /\ loopRunning' = FALSE
    /\ Returned("stop", "Ok")
    /\ HistStop
    /\ UNCHANGED <<variant, peer, mutex, stop_flag, axSel, queue, cb, nEvents, crashed,
                   event_tap, tap, cbAlive, thr, nStarts>>

(* stop(): CFRunLoop::get_current().stop(), the run loop of the calling thread. *)
MacStop ==
    /\ ~crashed /\ ~Dropped /\ variant = "mac"
    /\ loopRunning' = FALSE
    /\ Returned("stop", "Ok")
    /\ HistStop
    /\ UNCHANGED <<event_tap, tap, cbAlive, thr, nStarts>>
    /\ ApiFrame

(* thread::spawn(|| CFRunLoopRun()): the run loop of the new thread, which has no
   source (the tap was added to self.runloop), so CFRunLoopRun returns at once. *)
MacThreadRunLoop(i) ==
    /\ ~crashed /\ variant \in {"mac", "nmac"} /\ thr[i] = "runloop"
    /\ thr' = [thr EXCEPT ![i] = "done"]
    /\ ThreadFrame

------------------------------------------------------------------------------
(* MacOSListener of native *)

(* start(): trust check (InitializationFailure), CGEventTap::new (MonitoringError),
   state.event_tap = Some(event_tap) under the state lock (the tap stored before is
   dropped, not disabled), CFRunLoopAddSource(self.runloop), thread::spawn. *)
NMacStart ==
    /\ ~crashed /\ ~Dropped /\ variant = "nmac"
    /\ \E trusted \in BOOLEAN, created \in BOOLEAN :
          IF ~trusted
          THEN /\ ReturnedT("start", "Err_InitializationFailure", FALSE)
               /\ UNCHANGED <<nStarts, tap, cbAlive, thr, event_tap, hist>>
          ELSE IF ~created
          THEN /\ Returned("start", "Err_MonitoringError")
               /\ UNCHANGED <<nStarts, tap, cbAlive, thr, event_tap, hist>>
          ELSE /\ nStarts < MaxStarts
               /\ mutex = "free"
               /\ nStarts' = nStarts + 1
               /\ tap' = [tap EXCEPT ![nStarts + 1] = "enabled"]
               /\ cbAlive' = [i \in Ids |->
                                IF i = nStarts + 1 THEN TRUE
                                ELSE IF i = event_tap THEN FALSE ELSE cbAlive[i]]
               /\ event_tap' = nStarts + 1
               /\ thr' = [thr EXCEPT ![nStarts + 1] = "runloop"]
               /\ Returned("start", "Ok")
               /\ HistStartOk
    /\ UNCHANGED loopRunning
    /\ ApiFrame

(* stop(): under the state lock, take() the stored tap and disable it (the taken tap
   is dropped), then CFRunLoop::get_current().stop(); Ok(()). *)
NMacStop ==
    /\ ~crashed /\ ~Dropped /\ variant = "nmac"
    /\ mutex = "free"
    /\ IF event_tap # 0
       THEN /\ tap' = [tap EXCEPT ![event_tap] = "disabled"]
            /\ cbAlive' = [cbAlive EXCEPT ![event_tap] = FALSE]
       ELSE UNCHANGED <<tap, cbAlive>>
    /\ event_tap' = 0
    /\ loopRunning' = FALSE
    /\ Returned("stop", "Ok")
    /\ HistStop
    /\ UNCHANGED <<thr, nStarts>>
    /\ ApiFrame

------------------------------------------------------------------------------
(* get_selection(), the same in the three implementations:
   self.state.lock().unwrap().clone() *)

(* get_selection() that reads the state without taking the lock. *)
GetSelectionNoLock ==
    /\ ~crashed /\ ~Dropped
    /\ call' = [op |-> "get_selection", again |-> (call.op = "get_selection"),
                ret |-> "value", trusted |-> TRUE,
                val |-> selected_text, hadWrite |-> hist.writes # {},
                capSince |-> hist.capturedSince, active |-> hist.active]
    /\ UNCHANGED <<variant, peer, selected_text, mutex, stop_flag, event_tap, tap, cbAlive,
                   thr, nStarts, loopRunning, axSel, queue, cb, nEvents,
                   crashed, hist>>

GetSelection ==
    /\ ~crashed /\ ~Dropped
    /\ mutex = "free"
    /\ call' = [op |-> "get_selection", again |-> (call.op = "get_selection"),
                ret |-> "value", trusted |-> TRUE,
                val |-> selected_text, hadWrite |-> hist.writes # {},
                capSince |-> hist.capturedSince, active |-> hist.active]
    /\ UNCHANGED <<variant, peer, selected_text, mutex, stop_flag, event_tap, tap, cbAlive,
                   thr, nStarts, loopRunning, axSel, queue, cb, nEvents,
                   crashed, hist>>

------------------------------------------------------------------------------
(* The host discards the listener without stop(): Finalize for ListenerWrapper is
   empty and no listener type implements Drop, so only the fields are dropped (the
   listener's Arc handles); the spawned threads keep their own clones, the taps
   stay registered. *)
Drop ==
    /\ ~crashed /\ ~Dropped
    /\ Returned("drop", "none")
    /\ UNCHANGED <<variant, peer, selected_text, mutex, stop_flag, event_tap, tap,
                   cbAlive, thr, nStarts, loopRunning, axSel, queue, cb, nEvents,
                   crashed, hist>>

------------------------------------------------------------------------------
(* The environment: the user, the window server, the host's run loop *)

RECURSIVE EnabledTaps(_)
(* The enabled taps among 1..n, in the order of their registration. *)
EnabledTaps(n) ==
    IF n = 0 THEN <<>>
    ELSE EnabledTaps(n - 1) \o (IF tap[n] = "enabled" THEN <<n>> ELSE <<>>)

(* The user releases the mouse / presses a key; s is the text selected at that
   moment (None: nothing selected, the accessibility queries fail).  Every enabled
   tap gets the input event on the run loop its source was added to. *)
SelectionEvent(s) ==
    /\ ~crashed /\ nEvents < MaxEvents
    /\ nEvents' = nEvents + 1
    /\ axSel' = s
    /\ queue' = queue \o EnabledTaps(MaxStarts)
    /\ hist' = [hist EXCEPT !.lastEvent = IF hist.active THEN s ELSE hist.lastEvent]
    /\ UNCHANGED <<variant, peer, selected_text, mutex, stop_flag, event_tap, tap, cbAlive,
                   thr, nStarts, loopRunning, cb, crashed, call>>

(* The host runs the run loop of the thread that created the listener. *)
HostRunLoop ==
    /\ ~crashed /\ ~loopRunning /\ variant \in {"mac", "nmac"}
    /\ loopRunning' = TRUE
    /\ UNCHANGED <<variant, peer, selected_text, mutex, stop_flag, event_tap, tap, cbAlive,
                   thr, nStarts, axSel, queue, cb, nEvents, crashed, call, hist>>

------------------------------------------------------------------------------
(* The tap callback, run by self.runloop *)

CbFrame ==
    UNCHANGED <<variant, peer, stop_flag, event_tap, tap, cbAlive, thr, nStarts,
                loopRunning, axSel, nEvents, call>>

(* Where the callback of each implementation begins: rust-native queries first
   (get_selected_text()), native locks the state first. *)
CallbackEntry == IF variant = "mac" THEN "query" ELSE "nlock"

(* The run loop takes the next tapped event.  A disabled tap delivers nothing.  A
   tap whose callback box has been dropped calls through a dangling pointer:
   undefined behaviour, here the callback running as written, nothing happening,
   or the process dying. *)
Deliver ==
    /\ ~crashed /\ loopRunning /\ cb.pc = "idle" /\ queue # <<>>
    /\ queue' = Tail(queue)
    /\ LET i == Head(queue) IN
         IF tap[i] # "enabled"
         THEN UNCHANGED <<cb, crashed>>
         ELSE IF cbAlive[i]
         THEN cb' = [pc |-> CallbackEntry, text |-> None] /\ UNCHANGED crashed
         ELSE \E outcome \in {"runs", "nothing", "dies"} :
                 /\ cb' = IF outcome = "runs"
                          THEN [pc |-> CallbackEntry, text |-> None] ELSE cb
                 /\ crashed' = (outcome = "dies")
    /\ UNCHANGED <<selected_text, mutex, hist>>
    /\ CbFrame

(* get_selected_text(): the focused element, then its AXSelectedText; None when
   either query fails. *)
get_selected_text == axSel

(* The callback storing whatever the queries gave, None included. *)
CbQueryResets ==
    /\ ~crashed /\ cb.pc = "query"
    /\ IF get_selected_text = None
       THEN /\ mutex = "free"
            /\ selected_text' = None
            /\ cb' = IdleCb
       ELSE /\ cb' = [pc |-> "lock", text |-> get_selected_text]
            /\ UNCHANGED selected_text
    /\ UNCHANGED <<mutex, queue, crashed, hist>>
    /\ CbFrame

(* rust-native: if let Some(text) = get_selected_text() { ... } *)
CbQuery ==
    /\ ~crashed /\ cb.pc = "query"
    /\ cb' = IF get_selected_text = None THEN IdleCb
             ELSE [pc |-> "lock", text |-> get_selected_text]
    /\ UNCHANGED <<selected_text, mutex, queue, crashed, hist>>
    /\ CbFrame

(* rust-native: state.lock().unwrap() *)
CbLock ==
    /\ ~crashed /\ cb.pc = "lock"
    /\ mutex = "free"
    /\ mutex' = "cb"
    /\ cb' = [cb EXCEPT !.pc = "store1"]
    /\ UNCHANGED <<selected_text, queue, crashed, hist>>
    /\ CbFrame

(* *guard = Some(text): the store of a value wider than a word, first part. *)
CbStore1 ==
    /\ ~crashed /\ cb.pc = "store1"
    /\ selected_text' = <<cb.text[1],
                          IF selected_text = None THEN "?" ELSE selected_text[2]>>
    /\ cb' = [cb EXCEPT !.pc = "store2"]
    /\ UNCHANGED <<mutex, queue, crashed, hist>>
    /\ CbFrame

(* *guard = Some(text), second part; the guard is dropped, the callback returns. *)
CbStore2 ==
    /\ ~crashed /\ cb.pc = "store2"
    /\ selected_text' = <<selected_text[1], cb.text[2]>>
    /\ mutex' = "free"
    /\ cb' = IdleCb
    /\ hist' = [hist EXCEPT !.writes = hist.writes \cup {cb.text},
                            !.capturedSince = TRUE]
    /\ UNCHANGED <<queue, crashed>>
    /\ CbFrame

(* native: let mut state = state.lock().unwrap(), the first statement. *)
NCbLock ==
    /\ ~crashed /\ cb.pc = "nlock"
    /\ mutex = "free"
    /\ mutex' = "cb"
    /\ cb' = [cb EXCEPT !.pc = "nquery"]
    /\ UNCHANGED <<selected_text, queue, crashed, hist>>
    /\ CbFrame

(* native: focused_ui_element is a null local passed BY VALUE as the out pointer
   (focused_ui_element as *mut *const c_void), so it is still null after the call
   whatever the call returns: the test `result == 0 && !is_null()` fails. *)
NativeFocusedElement == None

(* native: the queries and the store, all under the lock taken first.  Passing a
   null out pointer to AXUIElementCopyAttributeValue either returns an error or
   faults; the store (line 116) needs the focused element. *)
NCbQuery ==
    /\ ~crashed /\ cb.pc = "nquery"
    /\ \E faults \in BOOLEAN :
          /\ crashed' = faults
          /\ IF ~faults /\ NativeFocusedElement # None /\ axSel # None
             THEN /\ selected_text' = axSel
                  /\ hist' = [hist EXCEPT !.writes = hist.writes \cup {axSel},
                                          !.capturedSince = TRUE]
             ELSE UNCHANGED <<selected_text, hist>>
    /\ mutex' = "free"
    /\ cb' = IdleCb
    /\ UNCHANGED queue
    /\ CbFrame

------------------------------------------------------------------------------
Start == WindowsStart \/ MacStart \/ NMacStart

Stop == WindowsStop \/ MacStop \/ NMacStop

Next ==
    \/ WindowsStart
    \/ MacStart
    \/ NMacStart
    \/ WindowsStop
    \/ MacStop
    \/ NMacStop
    \/ GetSelection
    \/ Drop
    \/ \E i \in Ids : WinThreadCoInit(i)
    \/ \E i \in Ids : WinThreadCoCreate(i)
    \/ \E i \in Ids : WinThreadWait(i)
    \/ \E i \in Ids : WinThreadUninit(i)
    \/ \E i \in Ids : MacThreadRunLoop(i)
    \/ \E s \in Texts \cup {None} : SelectionEvent(s)
    \/ HostRunLoop
    \/ Deliver
    \/ CbQuery
    \/ CbLock
    \/ CbStore1
    \/ CbStore2
    \/ NCbLock
    \/ NCbQuery

Spec == Init /\ [][Next]_vars

------------------------------------------------------------------------------
(* A second listener B of the same type, created by the same thread as this one:
   new() gives both runloop = CFRunLoopGetCurrent(), the one run loop of that
   thread, and start() adds each listener's tap source to it. *)

PeerFrame ==
    UNCHANGED <<variant, selected_text, mutex, stop_flag, event_tap, tap, cbAlive, thr,
                nStarts, axSel, queue, cb, nEvents, crashed, call, hist>>

(* B.start() returns Ok: B's tap is on the shared run loop. *)
PeerStart ==
    /\ ~crashed /\ variant \in {"mac", "nmac"} /\ peer # "started"
    /\ peer' = "started"
    /\ UNCHANGED loopRunning
    /\ PeerFrame

(* B.stop(): CFRunLoop::get_current().stop(), as in this listener's stop(). *)
PeerStop ==
    /\ ~crashed /\ variant \in {"mac", "nmac"} /\ peer = "started"
    /\ peer' = "stopped"
    /\ loopRunning' = FALSE
    /\ PeerFrame

(* B's mechanism works: its tap is registered and the run loop that hosts it runs. *)
PeerUp == peer = "started" /\ loopRunning

NextPeers ==
    \/ Next
    \/ PeerStart
    \/ PeerStop

SpecPeers == Init /\ [][NextPeers]_vars

------------------------------------------------------------------------------
(* Properties *)

(* The fields of the listener and the registrations and threads it owns. *)
ListenerState == <<selected_text, stop_flag, event_tap, tap, cbAlive, thr>>

(* No tapped event is waiting and no callback is in progress. *)
Quiescent == queue = <<>> /\ cb.pc = "idle"

(* C1: while no start() has returned Ok (whatever stop(), get_selection() and
   failed start() calls were made), get_selection() returns None. *)
C1_NoneBeforeStart ==
    (nStarts = 0 /\ call.op = "get_selection") => call.val = None

(* C1, its case: a get_selection() on a listener never started, after a stop(). *)
C1_Witness ==
    /\ nStarts = 0 /\ stop_flag
    /\ call.op = "get_selection" /\ call.val = None

(* C2: after a successful start(), once the last selection event with text t has
   been handled (nothing waits on the run loop, no callback runs), the shared state,
   which get_selection() returns, is Some(t), in every implementation. *)
C2_EventCaptured ==
    (~crashed /\ hist.active /\ hist.lastEvent # None /\ Quiescent)
        => selected_text = hist.lastEvent

(* C3: a value get_selection() returns is None exactly when no write had completed,
   and otherwise the text of one completed write of the observer: never a mix. *)
C3_NoTornRead ==
    call.op = "get_selection" =>
        /\ (call.val = None) <=> ~call.hadWrite
        /\ call.val # None => call.val \in hist.writes

(* C3, its case: a read that returned a text after two different writes. *)
C3_Witness ==
    /\ call.op = "get_selection" /\ call.val \in Texts
    /\ Cardinality(hist.writes) = 2

(* C4: stop() on a listener never started returns Ok and leaves the listener's
   state as it was. *)
C4_StopNeverStartedNoEffect ==
    [][(Stop /\ nStarts = 0) => (call'.ret = "Ok" /\ UNCHANGED ListenerState)]_vars

(* C5: a stop() that directly follows a stop() returns Ok and leaves the
   listener's state as the first stop() left it. *)
C5_StopTwiceIdempotent ==
    [][(Stop /\ call.op = "stop") => (call'.ret = "Ok" /\ UNCHANGED ListenerState)]_vars

(* C5, its case: a second stop() in succession has returned, on a started listener. *)
C5_Witness ==
    call.op = "stop" /\ call.again /\ call.ret = "Ok" /\ nStarts > 0

(* C6: a start() on a listener that is running (started, not stopped since) either
   returns Ok and registers no further tap and spawns no further thread, or returns
   InitializationFailure. *)
C6_NoDuplicateStart ==
    [][(Start /\ hist.active) =>
          \/ call'.ret = "Err_InitializationFailure"
          \/ (call'.ret = "Ok" /\ UNCHANGED <<tap, thr>>)]_vars

(* The mechanism of the i-th successful start() has not been taken down: on
   Windows its thread has not left the wait loop, on macOS its tap is enabled.
   (A thread that panics in its COM setup is the subject of C12, not counted.) *)
MechanismUp(i) ==
    IF variant = "win" THEN thr[i] \notin {"uninit", "done"}
    ELSE tap[i] = "enabled"

(* C7: while the last start() returned Ok and no stop() followed, the mechanism
   that start() spawned is up. *)
C7_ActiveUntilStop ==
    hist.active => MechanismUp(nStarts)

(* C8: a get_selection() on a started listener returns None when nothing has been
   captured since the last successful start(). *)
C8_NoneUntilCaptured ==
    (call.op = "get_selection" /\ call.active /\ ~call.capSince) => call.val = None

(* C9: stop() leaves the last-known selection as it is. *)
C9_StopKeepsSelection ==
    [][Stop => selected_text' = selected_text]_vars

(* C9, its case: stop() has returned on a listener that holds a captured text. *)
C9_Witness ==
    call.op = "stop" /\ call.ret = "Ok" /\ selected_text \in Texts

(* C11: on macOS a start() that finds the process untrusted returns
   InitializationFailure and registers no tap and spawns no thread. *)
C11_UntrustedStart ==
    [][(Start /\ variant \in {"mac", "nmac"} /\ ~call'.trusted) =>
          /\ call'.ret = "Err_InitializationFailure"
          /\ UNCHANGED <<tap, cbAlive, thr, nStarts, event_tap>>]_vars

(* The setup of thread i (COM initialization, creation of the automation engine)
   has failed. *)
SetupFailed(i) == thr[i] \in {"panicked", "panicked_com"}

(* What the start() that spawned thread i returned: start_impl ends in Ok(()). *)
StartResult(i) == "Ok"

(* C12: a start() whose platform setup fails does not return Ok. *)
C12_SetupFailureSurfaced ==
    \A i \in Ids : SetupFailed(i) => StartResult(i) # "Ok"

WaitsForFlag(i) == thr[i] \in {"coinit", "cocreate", "wait"}

(* C14: once a running listener has been discarded without stop(), every thread
   that waits for the termination signal has been given it. *)
C14_DropSignals ==
    (Dropped /\ hist.active) => \A i \in Ids : WaitsForFlag(i) => stop_flag

(* No thread has a step left to take. *)
ThreadsAtRest == \A i \in Ids : thr[i] \in {"none", "done", "panicked", "panicked_com"}

(* C15: on Windows, after stop(), once the threads have run as far as they go,
   every thread a start() spawned has seen the flag, uninitialized COM and ended. *)
C15_StopEndsThreads ==
    (variant = "win" /\ stop_flag /\ ThreadsAtRest)
        => \A i \in 1..nStarts : thr[i] = "done"

(* The listener was started and has been stopped since. *)
Stopped == nStarts > 0 /\ ~hist.active

(* C16: on macOS, an input event that occurs after stop() has returned reaches no
   tap of the listener (so no callback runs for it and nothing is written). *)
C16_NoEventAfterStop ==
    [][((\E s \in Texts \cup {None} : SelectionEvent(s))
            /\ variant \in {"mac", "nmac"} /\ Stopped)
          => queue' = queue]_vars

(* C17: the shared state changes only in a callback whose two queries succeeded,
   and a callback whose queries fail ends there: the state and the caller's last
   result stay as they are. *)
C17_FailedQueryKeepsState ==
    [][/\ selected_text' # selected_text =>
             \/ cb.pc \in {"store1", "store2"} /\ cb.text \in Texts
             \/ cb.pc = "nquery" /\ NativeFocusedElement # None /\ axSel # None
       /\ (cb.pc = "query" /\ get_selected_text = None /\ cb'.pc # "query") =>
             /\ cb' = IdleCb
             /\ UNCHANGED <<selected_text, call, crashed>>]_vars

(* C17, its case: the callback runs, its queries fail, a text captured earlier is
   in the state. *)
C17_Witness ==
    cb.pc = "query" /\ get_selected_text = None /\ selected_text \in Texts

(* C18: start() and stop() on this listener leave the mechanism of the other
   listener of the thread working. *)
C18_PeerUntouched ==
    [][(Start \/ Stop) => (PeerUp => PeerUp')]_vars

(* C19: while the callback performs the accessibility queries it does not hold
   the state lock. *)
C19_NoLockDuringQuery ==
    cb.pc \in {"query", "nquery"} => mutex = "free"

(* Thread i has initialized COM / has called CoUninitialize / has ended. *)
ComInitialized(i) == thr[i] \in {"cocreate", "wait", "uninit", "done", "panicked_com"}
ComUninitialized(i) == thr[i] = "done"
Ended(i) == thr[i] \in {"done", "panicked", "panicked_com"}

(* C20: a thread that initialized COM has called CoUninitialize when it has ended,
   and only a thread that initialized COM calls it. *)
C20_ComBalanced ==
    \A i \in Ids :
        /\ (Ended(i) /\ ComInitialized(i)) => ComUninitialized(i)
        /\ ComUninitialized(i) => ComInitialized(i)

====
